---- MODULE Spec2Model ----
(***************************************************************************)
(* A model of the AI Student Performance Dashboard: the Identity Client    *)
(* and the session of its entry points (app.py, main.py, and the           *)
(* FirebaseAuth class of firebase_auth.py), and the Subject Normalizer of  *)
(* the upload pipeline.                                                    *)
(***************************************************************************)
EXTENDS Integers, Sequences, FiniteSets, TLC

VARIABLES
    entry,      \* the program that runs: "app" (app.py), "main" (main.py), "fa" (FirebaseAuth)
    user,       \* st.session_state.user: None, or one identity record
    route,      \* st.session_state.route
    dialog,     \* whether the Account dialog is open
    pc,         \* "idle", "running" (a handler waits for the provider), "hung"
    handler,    \* the handler running, or the one that ran last
    args,       \* the handler's form inputs
    todo,       \* the requests the handler has still to make, the current one first
    retry,      \* the Retry counters left for the current _post call
    tries,      \* the requests the current _post call has sent
    lastAns,    \* the provider's answer to the last request sent
    uniform,    \* history: every answer of the current _post call had lastAns's status
    sent,       \* the requests the handler has sent, in order, a re-sent one listed once
    data,       \* the handler's locals: the tokens the first response carried
    outcome,    \* how the last handler ended: "none", "ok", or the exception's name
    user0,      \* history: session.user when the handler started
    failed,     \* history: a request of the handler ended without a 2xx JSON response
    issued,     \* history: the tokens and emailVerified the provider last returned
    view,       \* what the last render pass drew below the header
    loginSince, \* history: sign_in succeeded since the last sign-out (or start)
    signupSince,\* history: sign_up succeeded since the last sign-out (or start)
    upload,     \* the uploaded files as read and concatenated: column labels and rows
    all_df,     \* the table the upload pipeline works on
    phase,      \* upload pipeline: "none", "uploaded", "aggregated", "error", "crashed"
    missing,    \* the columns the "Missing required column(s)" message names
    report,     \* what the analysis of the upload showed: the filter inputs and the tables
    pred        \* the predictor dialog: its inputs and what "Predict" showed

authVars == <<user, route, dialog, pc, handler, args, todo, retry, tries, lastAns, uniform,
              sent, data, outcome, user0, failed, issued, view, loginSince, signupSince>>
tableVars == <<upload, all_df, phase, missing, report, pred>>
vars == <<entry, authVars, tableVars>>

(***************************************************************************)
(* Bounds of the model.                                                    *)
(***************************************************************************)
MaxToken == 2

(***************************************************************************)
(* Values.                                                                 *)
(***************************************************************************)
None == <<>>
Some(u) == <<u>>

\* The empty string, as a token: falsy in `if user.get("refreshToken")`.
EmptyToken == 0
Tokens == 1 .. MaxToken

UserRecord(id, rt, v) == [idToken |-> id, refreshToken |-> rt, verified |-> v]

NoData == [idToken |-> EmptyToken, refreshToken |-> EmptyToken]
NoPayload == [idToken |-> EmptyToken, refreshToken |-> EmptyToken, emailVerified |-> FALSE]

\* What a 200 JSON response of the provider can carry.
Payloads ==
    [idToken : Tokens, refreshToken : Tokens \cup {EmptyToken}, emailVerified : BOOLEAN]

(***************************************************************************)
(* The provider's answer to one request: no answer at all (the connection  *)
(* is refused, or the provider stalls), or an HTTP response.               *)
(***************************************************************************)
HttpStatuses == {200, 400, 401, 429, 503}

Answers ==
    {[net |-> n, status |-> 0, body |-> "none"] : n \in {"refused", "stall"}}
    \cup {[net |-> "resp", status |-> s, body |-> "error"] : s \in HttpStatuses \ {200}}
    \cup {[net |-> "resp", status |-> 200, body |-> b] : b \in {"json", "nokeys", "notjson"}}

NoAnswer == [net |-> "none", status |-> 0, body |-> "none"]

(***************************************************************************)
(* app.py: the Retry policy mounted on the requests session.               *)
(***************************************************************************)
RetryTotal == 4
RetryConnect == 3
RetryRead == 3
RetryStatus == 3
StatusForcelist_with401 == {401, 429, 500, 502, 503, 504}
StatusForcelist == {429, 500, 502, 503, 504}
AllowedMethods == {"GET", "POST"}
PostTimeout == 20

\* _retry: the counters a new _post call starts with.
NewRetry ==
    [total |-> RetryTotal, connect |-> RetryConnect, read |-> RetryRead,
     status |-> RetryStatus]

\* The adapter of a requests call made without a mounted Retry: no retry at all.
NoRetry == [total |-> 0, connect |-> 0, read |-> 0, status |-> 0]

\* Retry.is_retry: a response is re-sent when its method is allowed and its status forced.
IsRetry(method, status) == method \in AllowedMethods /\ status \in StatusForcelist

\* Retry.increment: one retry less in total and one less of the failure's kind.
Increment(r, ans) ==
    [total |-> r.total - 1,
     connect |-> IF ans.net = "refused" THEN r.connect - 1 ELSE r.connect,
     read |-> IF ans.net = "stall" THEN r.read - 1 ELSE r.read,
     status |-> IF ans.net = "resp" THEN r.status - 1 ELSE r.status]

\* Retry.is_exhausted.
IsExhausted(r) == r.total < 0 \/ r.connect < 0 \/ r.read < 0 \/ r.status < 0

\* The timeout each entry point gives its requests: app.py passes timeout=20,
\* pyrebase (main.py) and FirebaseAuth pass none.
TimeoutOf(e) == IF e = "app" THEN {PostTimeout} ELSE {}

(***************************************************************************)
(* One request of a _post call (app.py), of a pyrebase call (main.py) or   *)
(* of a FirebaseAuth method, given the provider's answer: the call         *)
(*   "retry"  sends the request again,                                     *)
(*   "return" returns the parsed JSON body,                                *)
(*   "raise"  raises exc,                                                  *)
(*   "hang"   never returns.                                               *)
(***************************************************************************)
Result(k, r, x) == [kind |-> k, retry |-> r, exc |-> x]

\* app.py _post: _session.post(url, json=payload, timeout=20) under _retry,
\* raise_for_status, r.json().
PostApp(r, ans) ==
    IF ans.net = "stall" /\ TimeoutOf("app") = {} THEN Result("hang", r, "")
    ELSE IF ans.net \in {"refused", "stall"}
    THEN \* a connect error, or a read timeout after PostTimeout seconds
         IF IsExhausted(Increment(r, ans))
         THEN Result("raise", Increment(r, ans), "ConnectionError")
         ELSE Result("retry", Increment(r, ans), "")
    ELSE IF IsRetry("POST", ans.status)
    THEN IF IsExhausted(Increment(r, ans))
         THEN Result("raise", Increment(r, ans), "RetryError")
         ELSE Result("retry", Increment(r, ans), "")
    ELSE IF ans.status >= 400 THEN Result("raise", r, "HTTPError")
    ELSE IF ans.body = "notjson" THEN Result("raise", r, "JSONDecodeError")
    ELSE Result("return", r, "")

\* main.py: a pyrebase auth call: requests.post without timeout or retries,
\* raise_detailed_error, then .json().
PostPyrebase(r, ans) ==
    IF ans.net = "refused" THEN Result("raise", r, "ConnectionError")
    ELSE IF ans.net = "stall"
    THEN IF TimeoutOf("main") = {} THEN Result("hang", r, "")
         ELSE Result("raise", r, "ReadTimeout")
    ELSE IF ans.status >= 400 THEN Result("raise", r, "HTTPError")
    ELSE IF ans.body = "notjson" THEN Result("raise", r, "JSONDecodeError")
    ELSE Result("return", r, "")

\* firebase_auth.py: requests.post(url, json=...).json(): no timeout, no
\* retries, no raise_for_status: an HTTP error's JSON body is returned.
PostFirebaseAuth(r, ans) ==
    IF ans.net = "refused" THEN Result("raise", r, "ConnectionError")
    ELSE IF ans.net = "stall"
    THEN IF TimeoutOf("fa") = {} THEN Result("hang", r, "")
         ELSE Result("raise", r, "ReadTimeout")
    ELSE IF ans.body = "notjson" THEN Result("raise", r, "JSONDecodeError")
    ELSE Result("return", r, "")

Transport(e, r, ans) ==
    CASE e = "app" -> PostApp(r, ans)
      [] e = "main" -> PostPyrebase(r, ans)
      [] OTHER -> PostFirebaseAuth(r, ans)

StartRetry(e) == IF e = "app" THEN NewRetry ELSE NoRetry

(***************************************************************************)
(* The requests of each handler.                                           *)
(***************************************************************************)
Req(ep, type) == [ep |-> ep, type |-> type]

SignUpReq == Req("accounts:signUp", "")
UpdateReq == Req("accounts:update", "")
VerifyEmailReq == Req("accounts:sendOobCode", "VERIFY_EMAIL")
PasswordResetReq == Req("accounts:sendOobCode", "PASSWORD_RESET")
SignInReq == Req("accounts:signInWithPassword", "")
LookupReq == Req("accounts:lookup", "")
TokenReq == Req("token", "")

\* The endpoints that change the provider's state.
StateChanging == {"accounts:signUp", "accounts:update", "accounts:sendOobCode"}

\* app.py sign_up_email_password: signUp, update when a display name is given,
\* then the verification email.
sign_up_email_password_noverify(hasName) ==
    <<SignUpReq>> \o (IF hasName THEN <<UpdateReq>> ELSE <<>>)
sign_up_email_password(hasName) ==
    <<SignUpReq>> \o (IF hasName THEN <<UpdateReq>> ELSE <<>>) \o <<VerifyEmailReq>>

\* app.py sign_in_email_password.
sign_in_email_password == <<SignInReq, LookupReq>>

\* app.py "I have verified. Refresh status": the token refresh when the session
\* holds a refresh token, then the lookup.
RefreshStatusApp(u) ==
    (IF u.refreshToken # EmptyToken THEN <<TokenReq>> ELSE <<>>) \o <<LookupReq>>

\* main.py "Create account": create_user_with_email_and_password, then
\* send_email_verification.
SignUpMain == <<SignUpReq, VerifyEmailReq>>

\* The requests handler h of entry point e makes, in order.
Plan(e, h, a, u) ==
    CASE h = "login" -> sign_in_email_password
      [] h = "signup" -> IF e = "app" THEN sign_up_email_password(a.hasName) ELSE SignUpMain
      [] h = "reset" -> <<PasswordResetReq>>
      [] h = "resend" -> <<VerifyEmailReq>>
      [] h = "refresh" -> IF e = "app" THEN RefreshStatusApp(u[1]) ELSE <<LookupReq>>
      [] h = "fa_signup" -> <<SignUpReq>>
      [] h = "fa_login" -> <<SignInReq>>
      [] h = "fa_reset_password" -> <<PasswordResetReq>>
      [] h = "fa_send_verify_email" -> <<VerifyEmailReq>>
      [] h = "fa_account_info" -> <<LookupReq>>

\* The token a request carries: the idToken of the handler's first response,
\* or the session's idToken or refresh token.
TokenOf(h, q, d, u) ==
    CASE q.ep \in {"accounts:signUp", "accounts:signInWithPassword"} -> EmptyToken
      [] q.type = "PASSWORD_RESET" -> EmptyToken
      [] q.ep = "token" -> u[1].refreshToken
      [] h \in {"resend", "refresh"} -> u[1].idToken
      [] h \in {"login", "signup"} -> d.idToken
      [] OTHER -> d.idToken

(***************************************************************************)
(* What a handler does with the body a request returned: b is "json" (the  *)
(* expected keys, carrying p), or "nokeys" (JSON without them). The result *)
(* is the exception raised ("" for none), the session and the locals.      *)
(***************************************************************************)
Next3(x, u, d) == [exc |-> x, user |-> u, data |-> d]

\* app.py refresh_id_token: the record it returns, by key.
refresh_id_token(p) == ("idToken" :> p.idToken) @@ ("RefreshToken" :> p.refreshToken)

\* app.py auth_dialog, "I have verified. Refresh status", after refresh_id_token:
\* the session's idToken is assigned, then its refreshToken from newt["refreshToken"].
AssignRefreshed(u, newt) ==
    IF "refreshToken" \in DOMAIN newt
    THEN Next3("", Some([u[1] EXCEPT !.idToken = newt["idToken"],
                                     !.refreshToken = newt["refreshToken"]]), NoData)
    ELSE Next3("KeyError", Some([u[1] EXCEPT !.idToken = newt["idToken"]]), NoData)

\* bool(info.get("emailVerified")) of a lookup's first user, {} when there is none.
EmailVerified(b, p) == b = "json" /\ p.emailVerified

After(h, q, b, p, d, u) ==
    CASE h \in {"login", "signup"} /\ q.ep \in {"accounts:signUp", "accounts:signInWithPassword"} ->
            IF b = "nokeys" THEN Next3("KeyError", u, d)
            ELSE Next3("", u, [idToken |-> p.idToken, refreshToken |-> p.refreshToken])
      [] h = "login" /\ q.ep = "accounts:lookup" ->
            Next3("", Some(UserRecord(d.idToken, d.refreshToken, EmailVerified(b, p))), d)
      [] h = "signup" /\ q.ep = "accounts:sendOobCode" ->
            Next3("", Some(UserRecord(d.idToken, d.refreshToken, FALSE)), d)
      [] h = "refresh" /\ q.ep = "token" ->
            IF b = "nokeys" THEN Next3("KeyError", u, d)
            ELSE AssignRefreshed(u, refresh_id_token(p))
      [] h = "refresh" /\ q.ep = "accounts:lookup" ->
            Next3("", Some([u[1] EXCEPT !.verified = EmailVerified(b, p)]), d)
      [] OTHER -> Next3("", u, d)

\* main.py _account_info: any exception of the lookup is caught and {} returned.
Swallowed(e, q) == e = "main" /\ q.ep = "accounts:lookup"

\* The handlers that end in st.rerun(): the rerun closes the dialog.
Reruns(e, h) == h = "login" \/ (e = "main" /\ h = "refresh")

\* The payloads a returned body can carry, as far as the handler reads them.
PayloadsFor(q, b) ==
    IF b = "json" /\ q.ep \in {"accounts:signUp", "accounts:signInWithPassword",
                               "token", "accounts:lookup"}
    THEN Payloads ELSE {NoPayload}

Issue(q, b, p, i) ==
    IF b # "json" THEN i
    ELSE IF q.ep \in {"accounts:signUp", "accounts:signInWithPassword", "token"}
    THEN [i EXCEPT !.idToken = p.idToken, !.refreshToken = p.refreshToken]
    ELSE IF q.ep = "accounts:lookup" THEN [i EXCEPT !.emailVerified = p.emailVerified]
    ELSE i

(***************************************************************************)
(* Tables: the column labels in order (a label may repeat), and the rows,  *)
(* each a sequence of cells aligned with the labels. A cell is NaN (an     *)
(* empty cell, or a column the row's file did not have), or holds a value. *)
(***************************************************************************)
Frame(c, r) == [cols |-> c, rows |-> r]
EmptyFrame == Frame(<<>>, <<>>)

NaN == <<>>
Cell(v) == <<v>>

\* Nothing analysed yet, nothing predicted yet.
NoReport == [shown |-> FALSE]
NoPred == [shown |-> FALSE]

(***************************************************************************)
(* Initial state: the script has run once: no user, route "home".          *)
(***************************************************************************)
NoArgs == [hasName |-> FALSE]

\* app.py require_auth: the page goes on only with a user; without one it
\* shows its own prompt and stops.
require_auth(u) == u # None

\* app.py render_and_route, after render_header: without a user the login
\* prompt and st.stop(); with one the page of the route, which passes
\* require_auth first.
render_and_route_ungated(u, r) == r
render_and_route(u, r) ==
    IF u = None THEN "gate"
    ELSE IF r \in {"home", "team"} THEN (IF require_auth(u) THEN r ELSE "login")
    ELSE "blank"

\* What a run of the script draws: main.py has no gate, FirebaseAuth no page.
Render(e, u, r) ==
    IF e = "app" THEN render_and_route(u, r) ELSE IF e = "main" THEN "main" ELSE "none"

InitHandlers ==
    /\ route = "home"
    /\ dialog = FALSE
    /\ pc = "idle"
    /\ handler = "none"
    /\ args = NoArgs
    /\ todo = <<>>
    /\ retry = NoRetry
    /\ tries = 0
    /\ lastAns = NoAnswer
    /\ uniform = TRUE
    /\ sent = <<>>
    /\ data = NoData
    /\ outcome = "none"
    /\ user0 = None
    /\ failed = FALSE
    /\ issued = NoPayload
    /\ signupSince = FALSE

InitAuth ==
    /\ user = None
    /\ view = Render(entry, None, "home")
    /\ loginSince = FALSE
    /\ InitHandlers

InitTable0 ==
    /\ upload = EmptyFrame
    /\ all_df = EmptyFrame
    /\ phase = "none"
    /\ missing = <<>>
    /\ report = NoReport
    /\ pred = NoPred

Init ==
    /\ entry \in {"app", "main", "fa"}
    /\ InitAuth
    /\ InitTable0

(***************************************************************************)
(* The interface actions that make no request.                             *)
(***************************************************************************)
\* The locals of a handler that has returned are gone.
Forget(h) ==
    /\ handler' = h
    /\ args' = NoArgs
    /\ todo' = <<>>
    /\ retry' = NoRetry
    /\ tries' = 0
    /\ lastAns' = NoAnswer
    /\ uniform' = TRUE
    /\ sent' = <<>>
    /\ data' = NoData
    /\ outcome' = "none"
    /\ user0' = user
    /\ failed' = FALSE
    /\ issued' = NoPayload

\* "Login / Sign up": the button is rendered only while there is no user.
OpenDialog ==
    /\ entry \in {"app", "main"}
    /\ pc = "idle" /\ ~dialog /\ user = None
    /\ dialog' = TRUE
    /\ view' = Render(entry, user, route)
    /\ Forget("open")
    /\ UNCHANGED <<entry, user, route, pc, loginSince, signupSince, tableVars>>

\* The dialog is dismissed.
CloseDialog ==
    /\ pc = "idle" /\ dialog
    /\ dialog' = FALSE
    /\ Forget("close")
    /\ UNCHANGED <<entry, user, route, pc, view, loginSince, signupSince, tableVars>>

\* app.py go(route), from the header's Home and Team buttons.
go(r) ==
    /\ entry = "app"
    /\ pc = "idle" /\ ~dialog
    /\ route' = r
    /\ view' = Render(entry, user, r)
    /\ Forget("go")
    /\ UNCHANGED <<entry, user, dialog, pc, loginSince, signupSince, tableVars>>

\* What "Sign out" / "Log out" leaves in session.user.
SignedOut_keep(u) == u
SignedOut(u) == None

SignOut ==
    /\ entry \in {"app", "main"}
    /\ pc = "idle" /\ ~dialog /\ user # None
    /\ user' = SignedOut(user)
    /\ view' = Render(entry, user', route)
    /\ loginSince' = FALSE
    /\ signupSince' = FALSE
    /\ Forget("signout")
    /\ UNCHANGED <<entry, route, dialog, pc, tableVars>>

(***************************************************************************)
(* A handler starts: its form is submitted, or its button pressed.         *)
(***************************************************************************)
Begin(h, a) ==
    /\ pc = "idle"
    /\ pc' = "running"
    /\ handler' = h
    /\ args' = a
    /\ todo' = Plan(entry, h, a, user)
    /\ retry' = StartRetry(entry)
    /\ tries' = 0
    /\ lastAns' = NoAnswer
    /\ uniform' = TRUE
    /\ sent' = <<>>
    /\ data' = NoData
    /\ outcome' = "none"
    /\ user0' = user
    /\ failed' = FALSE
    /\ issued' = NoPayload
    /\ UNCHANGED <<entry, user, route, dialog, view, loginSince, signupSince, tableVars>>

Login == entry \in {"app", "main"} /\ dialog /\ Begin("login", NoArgs)

SignUp ==
    /\ entry \in {"app", "main"} /\ dialog
    /\ \E hasName \in BOOLEAN : Begin("signup", [hasName |-> hasName])

ForgotPassword == entry \in {"app", "main"} /\ dialog /\ Begin("reset", NoArgs)

ResendVerification ==
    entry \in {"app", "main"} /\ dialog /\ user # None /\ Begin("resend", NoArgs)

RefreshStatus ==
    entry \in {"app", "main"} /\ dialog /\ user # None /\ Begin("refresh", NoArgs)

FirebaseAuthMethods ==
    {"fa_signup", "fa_login", "fa_reset_password", "fa_send_verify_email", "fa_account_info"}

FirebaseAuthCall == entry = "fa" /\ \E h \in FirebaseAuthMethods : Begin(h, NoArgs)

(***************************************************************************)
(* The running handler sends its current request and the provider answers. *)
(***************************************************************************)
Current == Head(todo)

Sent(q) == [ep |-> q.ep, type |-> q.type, tok |-> TokenOf(handler, q, data, user)]

\* The request is on the wire and answered by ans.
Exchange(ans) ==
    /\ pc = "running"
    /\ lastAns' = ans
    /\ sent' = IF tries = 0 THEN Append(sent, Sent(Current)) ELSE sent

\* The history of the current call, after one more answer.
Counted(ans) ==
    /\ tries' = tries + 1
    /\ uniform' = (tries = 0 \/ (uniform /\ ans.net = lastAns.net /\ ans.status = lastAns.status))

\* The handler goes on after its current request gave body b carrying p; bad
\* says that the request failed and the failure was caught on the way.
Proceed(ans, b, p, bad) ==
    LET n == After(handler, Current, b, p, data, user) IN
    /\ user' = n.user
    /\ data' = n.data
    /\ failed' = (failed \/ bad)
    /\ issued' = Issue(Current, b, p, issued)
    /\ IF n.exc # ""
       THEN \* the handler's except branch
            /\ pc' = "idle"
            /\ outcome' = n.exc
            /\ Counted(ans)
            /\ UNCHANGED <<todo, retry, dialog, view, loginSince, signupSince>>
       ELSE IF Tail(todo) = <<>>
       THEN \* the handler returns
            /\ pc' = "idle"
            /\ outcome' = IF entry = "fa" /\ ans.status >= 400 THEN "errorbody" ELSE "ok"
            /\ Counted(ans)
            /\ dialog' = IF Reruns(entry, handler) THEN FALSE ELSE dialog
            /\ view' = IF Reruns(entry, handler) THEN Render(entry, n.user, route) ELSE view
            /\ loginSince' = (loginSince \/ handler = "login")
            /\ signupSince' = (signupSince \/ handler = "signup")
            /\ UNCHANGED <<todo, retry>>
       ELSE \* the next request of the handler
            /\ pc' = "running"
            /\ todo' = Tail(todo)
            /\ retry' = StartRetry(entry)
            /\ tries' = 0
            /\ uniform' = TRUE
            /\ outcome' = "none"
            /\ UNCHANGED <<dialog, view, loginSince, signupSince>>

\* The request is sent again.
AttemptRetry ==
    \E ans \in Answers :
        /\ Exchange(ans)
        /\ Counted(ans)
        /\ Transport(entry, retry, ans).kind = "retry"
        /\ retry' = Transport(entry, retry, ans).retry
        /\ UNCHANGED <<entry, user, route, dialog, pc, handler, args, todo, data, outcome,
                       user0, failed, issued, view, loginSince, signupSince, tableVars>>

\* The request returns a body.
AttemptReturn ==
    \E ans \in Answers :
        /\ Exchange(ans)
        /\ Transport(entry, retry, ans).kind = "return"
        /\ \E p \in PayloadsFor(Current, ans.body) :
               Proceed(ans, IF ans.status >= 400 THEN "nokeys" ELSE ans.body, p,
                       ans.status >= 400)
        /\ UNCHANGED <<entry, route, handler, args, user0, tableVars>>

\* The request raises: the handler's except branch, or _account_info's.
AttemptRaise ==
    \E ans \in Answers :
        /\ Exchange(ans)
        /\ Transport(entry, retry, ans).kind = "raise"
        /\ IF Swallowed(entry, Current)
           THEN Proceed(ans, "nokeys", NoPayload, TRUE)
           ELSE /\ pc' = "idle"
                /\ Counted(ans)
                /\ outcome' = Transport(entry, retry, ans).exc
                /\ failed' = TRUE
                /\ retry' = Transport(entry, retry, ans).retry
                /\ UNCHANGED <<user, dialog, todo, data, issued, view, loginSince, signupSince>>
        /\ UNCHANGED <<entry, route, handler, args, user0, tableVars>>

\* The request never returns.
AttemptHang ==
    \E ans \in Answers :
        /\ Exchange(ans)
        /\ Counted(ans)
        /\ Transport(entry, retry, ans).kind = "hang"
        /\ pc' = "hung"
        /\ failed' = TRUE
        /\ UNCHANGED <<entry, user, route, dialog, handler, args, todo, retry, data, outcome,
                       user0, issued, view, loginSince, signupSince, tableVars>>

\* Any other interaction with the page (a widget outside the dialog) runs the
\* script again: the dialog is not reopened and the page is drawn anew.
RenderPass ==
    /\ entry = "app"
    /\ pc = "idle"
    /\ dialog' = FALSE
    /\ view' = Render(entry, user, route)
    /\ Forget("render")
    /\ UNCHANGED <<entry, user, route, pc, loginSince, signupSince, tableVars>>

Next ==
    \/ OpenDialog
    \/ CloseDialog
    \/ RenderPass
    \/ \E r \in {"home", "team"} : go(r)
    \/ SignOut
    \/ Login
    \/ SignUp
    \/ ForgotPassword
    \/ ResendVerification
    \/ RefreshStatus
    \/ FirebaseAuthCall
    \/ AttemptRetry
    \/ AttemptReturn
    \/ AttemptRaise
    \/ AttemptHang

Spec == Init /\ [][Next]_vars

(***************************************************************************)
(* Upload & Analyze: the subject normalizer and the validation of the      *)
(* identity columns, in both entry points.                                 *)
(***************************************************************************)
MaxRows == 2
MaxSubjCols == 2

SUBJECTS ==
    <<"OOPs C++", "DSA C++", "Mathematics", "Applied Data Science",
      "Embedded Systems", "Cloud Management">>

possible_subjects == SUBJECTS

RENAME_MAP ==
    ("OOPS C++" :> "OOPs C++") @@ ("OOP C++" :> "OOPs C++")
    @@ ("Object Oriented Programming C++" :> "OOPs C++")
    @@ ("DSA CPP" :> "DSA C++") @@ ("DSA in C++" :> "DSA C++")
    @@ ("Applied data science" :> "Applied Data Science")
    @@ ("Applied DataScience" :> "Applied Data Science")
    @@ ("Embedded System" :> "Embedded Systems")
    @@ ("Embeded system" :> "Embedded Systems")
    @@ ("Cloud Mgmt" :> "Cloud Management") @@ ("CloudMgmt" :> "Cloud Management")

rename_map ==
    ("OOPS C++" :> "OOPs C++") @@ ("OOPs CPP" :> "OOPs C++")
    @@ ("DSA CPP" :> "DSA C++")
    @@ ("Applied data science" :> "Applied Data Science")
    @@ ("Embedded System" :> "Embedded Systems")
    @@ ("Cloud Mgmt" :> "Cloud Management")
    @@ ("Reg No" :> "Reg.no") @@ ("Reg_No" :> "Reg.no")
    @@ ("Registration No" :> "Reg.no")

\* The identity columns, in the order each entry point checks them.
CoreColumns == <<"Class", "Reg.no", "Name">>
required_base == <<"Reg.no", "Name", "Class">>

AliasMap(e) == IF e = "app" THEN RENAME_MAP ELSE rename_map

\* DataFrame.rename(columns=m): every label that is a key of m is replaced;
\* two labels may become the same label.
Rename(m, df) ==
    Frame([i \in 1 .. Len(df.cols) |->
              IF df.cols[i] \in DOMAIN m THEN m[df.cols[i]] ELSE df.cols[i]],
          df.rows)

HasColumn(df, c) == \E i \in 1 .. Len(df.cols) : df.cols[i] = c

\* df[c] = v for a new label c: a column appended with v in every row.
AddColumn(df, c, v) ==
    Frame(Append(df.cols, c), [r \in 1 .. Len(df.rows) |-> Append(df.rows[r], v)])

\* for sub in SUBJECTS: if sub not in df.columns: df[sub] = 0
RECURSIVE EnsureSubjects(_, _, _)
EnsureSubjects(df, subs, k) ==
    IF k > Len(subs) THEN df
    ELSE EnsureSubjects(IF HasColumn(df, subs[k]) THEN df ELSE AddColumn(df, subs[k], Cell(0)),
                        subs, k + 1)

Labels(subs) == {subs[k] : k \in 1 .. Len(subs)}

fillna_skipped(df, subs) == df
\* df[subs].fillna(0), written back: NaN becomes 0 in the columns labelled in subs.
fillna(df, subs) ==
    Frame(df.cols,
          [r \in 1 .. Len(df.rows) |->
              [i \in 1 .. Len(df.cols) |->
                  IF df.cols[i] \in Labels(subs) /\ df.rows[r][i] = NaN
                  THEN Cell(0) ELSE df.rows[r][i]]])

Duplicated(df, subs) ==
    {k \in 1 .. Len(subs) : Cardinality({i \in 1 .. Len(df.cols) : df.cols[i] = subs[k]}) > 1}

\* df[subs] = df[subs].fillna(0). With a label of subs repeated in df, df[subs]
\* has more columns than subs has keys: the assignment raises ValueError, except
\* that a pandas which pairs keys with columns one by one completes it when the
\* only repeated label is the last key.
SetFilled(df, subs) ==
    LET done == [crash |-> FALSE, df |-> fillna(df, subs)]
        crashed == [crash |-> TRUE, df |-> df]
    IN  IF Duplicated(df, subs) = {} THEN {done}
        ELSE IF Duplicated(df, subs) = {Len(subs)} THEN {done, crashed}
        ELSE {crashed}

\* [c for c in required if c not in df.columns]
MissingColumns(df, required) == SelectSeq(required, LAMBDA c : ~HasColumn(df, c))

(***************************************************************************)
(* Analysis of the normalized table: the class and name filter, totals and *)
(* percentages, the KPIs, the top 3, the weak listing and the comparison   *)
(* of classes. Means and rates are kept as exact fractions; a percentage   *)
(* rounded to 2 decimals is kept in hundredths.                            *)
(***************************************************************************)
Frac(n, d) == [num |-> n, den |-> d]

RECURSIVE SumSeq(_)
SumSeq(q) == IF q = <<>> THEN 0 ELSE Head(q) + SumSeq(Tail(q))

\* df[c]: the column labelled c.
Column(df, c) == CHOOSE i \in 1 .. Len(df.cols) : df.cols[i] = c
At(df, r, c) == df.rows[r][Column(df, c)][1]
RowIndex(df) == [r \in 1 .. Len(df.rows) |-> r]

\* df[subs]: the columns whose label is in subs, in the order of subs.
RECURSIVE Selected(_, _, _)
Selected(df, subs, k) ==
    IF k > Len(subs) THEN <<>>
    ELSE SelectSeq([i \in 1 .. Len(df.cols) |-> i], LAMBDA i : df.cols[i] = subs[k])
         \o Selected(df, subs, k + 1)

\* The marks of row r in the columns cols (the positions of df[subs]).
RowMarks(df, r, cols) == [j \in 1 .. Len(cols) |-> df.rows[r][cols[j]][1]]

\* The order of sorted() / groupby on the class names of the model.
ClassRank == ("A" :> 1) @@ ("B" :> 2) @@ ("x" :> 3)

RECURSIVE SortedClasses(_)
SortedClasses(S) ==
    IF S = {} THEN <<>>
    ELSE LET c == CHOOSE a \in S : \A b \in S : ClassRank[a] <= ClassRank[b]
         IN  <<c>> \o SortedClasses(S \ {c})

\* class_list = sorted(all_df["Class"].astype(str).unique())
ClassList(df) == SortedClasses({At(df, r, "Class") : r \in 1 .. Len(df.rows)})

\* str.strip() and str.lower() on the strings of the model.
StripMap == (" An" :> "An")
LowerMap ==
    ("An" :> "an") @@ ("Ann" :> "ann") @@ ("Anna" :> "anna") @@ ("Raj" :> "raj")
    @@ ("Dan" :> "dan")
Strip(t) == IF t \in DOMAIN StripMap THEN StripMap[t] ELSE t
Lower(t) == IF t \in DOMAIN LowerMap THEN LowerMap[t] ELSE t
\* str.contains(q) on the lowered names of the model.
Substrings == {<<"an", "ann">>, <<"an", "anna">>, <<"an", "dan">>}
Contains(t, q) == q = t \/ <<q, t>> \in Substrings

\* all_df[all_df["Class"].astype(str) == str(selected_class)]: the rows kept.
FilterClass(df, sel) == SelectSeq(RowIndex(df), LAMBDA r : At(df, r, "Class") = sel)

\* app.py: if name_query.strip(): keep the rows whose lowered name contains it.
FilterName(df, idx, q) ==
    IF Strip(q) = "" THEN idx
    ELSE SelectSeq(idx, LAMBDA r : Contains(Lower(At(df, r, "Name")), Lower(Strip(q))))

\* cls_df[class_subjects].sum(axis=1)
TotalMarks_allcols(df, r, cols) ==
    LET all == SelectSeq([i \in 1 .. Len(df.cols) |-> i],
                         LAMBDA i : df.cols[i] \notin {"Class", "Reg.no", "Name"})
    IN  SumSeq(RowMarks(df, r, all))
TotalMarks(df, r, cols) == SumSeq(RowMarks(df, r, cols))

\* (total / (len(class_subjects) * 100) * 100).round(2), in hundredths: the
\* nearest hundredth (an integer total over 6 is never half-way between two).
Percentage(total, n) == (2 * total * 100 + n) \div (2 * n)

\* cls_df with its two new columns: per row kept, its position in all_df,
\* Total Marks and Percentage.
WithTotals(df, idx, cols, n) ==
    [k \in 1 .. Len(idx) |->
        LET total == TotalMarks(df, idx[k], cols)
        IN  [row |-> idx[k], total |-> total, pct |-> Percentage(total, n)]]

\* (cls_df[class_subjects] >= 40).all(axis=1)
PassMark == 40
PassAll_above(df, r, cols) == \A j \in 1 .. Len(cols) : df.rows[r][cols[j]][1] > PassMark
PassAll(df, r, cols) == \A j \in 1 .. Len(cols) : df.rows[r][cols[j]][1] >= PassMark


\* app.py: pass_rate = 0.0; if len(cls_df): 100.0 * passes / len(cls_df)
PassRate_unguarded(df, idx, cols) ==
    Frac(100 * Len(SelectSeq(idx, LAMBDA r : PassAll(df, r, cols))), Len(idx))
PassRate(df, idx, cols) ==
    IF Len(idx) = 0 THEN Frac(0, 1)
    ELSE Frac(100 * Len(SelectSeq(idx, LAMBDA r : PassAll(df, r, cols))), Len(idx))

\* cls_df["Percentage"].mean() if len(cls_df) else "0.00"
ClassAverage(cls) ==
    IF Len(cls) = 0 THEN Frac(0, 1)
    ELSE Frac(SumSeq([k \in 1 .. Len(cls) |-> cls[k].pct]), Len(cls))

\* cls_df["Percentage"].max() if len(cls_df) else 0
Topper(cls) ==
    IF Len(cls) = 0 THEN 0
    ELSE CHOOSE m \in {cls[k].pct : k \in 1 .. Len(cls)} : \A k \in 1 .. Len(cls) : cls[k].pct <= m

\* cls_df[class_subjects].mean(): per column, the mean over the rows kept;
\* over no rows it is NaN, kept as 0/0.
SubjectAverages(df, idx, cols) ==
    [j \in 1 .. Len(cols) |->
        [subject |-> df.cols[cols[j]],
         mean |-> Frac(SumSeq([k \in 1 .. Len(idx) |-> df.rows[idx[k]][cols[j]][1]]), Len(idx))]]

\* cls_df.sort_values(by="Total Marks", ascending=False): the default sort
\* kind (quicksort) is not a stable sort: rows of equal total come in any order.
RECURSIVE SortValuesDesc(_, _)
SortValuesDesc(cls, S) ==
    IF S = {} THEN {<<>>}
    ELSE UNION {{<<cls[m]>> \o t : t \in SortValuesDesc(cls, S \ {m})} :
                  m \in {x \in S : \A y \in S : cls[y].total <= cls[x].total}}

RankLabels == <<"1st", "2nd", "3rd">>
TopCount == 3

\* .head(3), with top3["Rank"] = ["1st", "2nd", "3rd"][:len(top3)]
Top3(sorted) ==
    [k \in 1 .. (IF Len(sorted) < TopCount THEN Len(sorted) ELSE TopCount) |->
        [rank |-> RankLabels[k], row |-> sorted[k].row,
         total |-> sorted[k].total, pct |-> sorted[k].pct]]

Top3s(cls) == {Top3(t) : t \in SortValuesDesc(cls, 1 .. Len(cls))}

\* The alphabetical order of the subject names (sort_values by "Subject").
SubjectRank ==
    ("Applied Data Science" :> 1) @@ ("Cloud Management" :> 2) @@ ("DSA C++" :> 3)
    @@ ("Embedded Systems" :> 4) @@ ("Mathematics" :> 5) @@ ("OOPs C++" :> 6)

\* cls_df.melt(id_vars=["Reg.no", "Name"], value_vars=class_subjects): per
\* subject column, in the order of class_subjects, one row per row of cls_df.
Melted(df, idx, cols) ==
    LET reg == Column(df, "Reg.no")
        name == Column(df, "Name")
    IN  [t \in 1 .. (Len(cols) * Len(idx)) |->
            LET i == cols[((t - 1) \div Len(idx)) + 1]
                r == idx[((t - 1) % Len(idx)) + 1]
            IN  [row |-> r, reg |-> df.rows[r][reg][1], name |-> df.rows[r][name][1],
                 subject |-> df.cols[i], marks |-> df.rows[r][i][1]]]

\* sort_values(by=["Subject", "Marks"]): by subject name, then by mark, rows
\* equal in both in the order they had (a sort on several keys is stable).
RECURSIVE SortBySubjectMarks(_, _)
SortBySubjectMarks(m, S) ==
    IF S = {} THEN <<>>
    ELSE LET t == CHOOSE a \in S : \A b \in S :
                     \/ SubjectRank[m[a].subject] < SubjectRank[m[b].subject]
                     \/ /\ m[a].subject = m[b].subject
                        /\ \/ m[a].marks < m[b].marks
                           \/ (m[a].marks = m[b].marks /\ a <= b)
         IN  <<m[t]>> \o SortBySubjectMarks(m, S \ {t})

\* weak_df = melted[melted["Marks"] < 40].sort_values(by=["Subject", "Marks"])
WeakBelow_inclusive(m) == {t \in 1 .. Len(m) : m[t].marks <= PassMark}
WeakBelow(m) == {t \in 1 .. Len(m) : m[t].marks < PassMark}
WeakListing_none(df, idx, cols) == <<>>
WeakListing(df, idx, cols) ==
    LET m == Melted(df, idx, cols) IN SortBySubjectMarks(m, WeakBelow(m))

\* The rows the comparison of classes groups: all of all_df, whatever the filter kept.
ComparedRows_filtered(df, idx) == idx
ComparedRows(df, idx) == RowIndex(df)

\* tmp["PassAll"] = (tmp[class_subjects] >= 40).all(axis=1), then for the rows
\* of one class: ["PassAll"].mean().mul(100)
ClassPassRate_unscaled(df, of, cols) ==
    Frac(Len(SelectSeq(of, LAMBDA r : PassAll(df, r, cols))), Len(of))
ClassPassRate(df, of, cols) ==
    Frac(100 * Len(SelectSeq(of, LAMBDA r : PassAll(df, r, cols))), Len(of))

\* app.py, Class Comparisons: per class, in groupby's sorted order, the subject
\* means, the number of distinct Reg.no, and 100 * the mean of PassAll.
Comparison(df, rows, cols) ==
    LET class == Column(df, "Class")
        reg == Column(df, "Reg.no")
        classes == SortedClasses({df.rows[rows[k]][class][1] : k \in 1 .. Len(rows)})
    IN  [c \in 1 .. Len(classes) |->
            LET of == SelectSeq(rows, LAMBDA r : df.rows[r][class][1] = classes[c])
            IN  [class |-> classes[c],
                 averages |-> SubjectAverages(df, of, cols),
                 students |-> Cardinality({df.rows[of[k]][reg][1] : k \in 1 .. Len(of)}),
                 pass_rate |-> ClassPassRate(df, of, cols)]]

NoValue == Frac(0, 0)

\* What one run of the analysis shows for the table df, the selected class
\* and the name query: one report per order the top-3 sort can give.
Reports(e, df, sel, q, subs) ==
    LET idx == IF e = "app" THEN FilterName(df, FilterClass(df, sel), q) ELSE FilterClass(df, sel)
        cols == Selected(df, subs, 1)
        cls == WithTotals(df, idx, cols, Len(subs))
        shown == [shown |-> TRUE, selected_class |-> sel, name_query |-> q,
                  cls_df |-> cls,
                  students |-> Len(cls),
                  class_average |-> IF e = "app" THEN ClassAverage(cls) ELSE NoValue,
                  pass_rate |-> IF e = "app" THEN PassRate(df, idx, cols) ELSE NoValue,
                  topper |-> IF e = "app" THEN Topper(cls) ELSE 0,
                  avg_data |-> SubjectAverages(df, idx, cols),
                  top3 |-> <<>>,
                  weak_df |-> WeakListing(df, idx, cols),
                  comparison |-> IF e = "app" THEN Comparison(df, ComparedRows(df, idx), cols)
                                 ELSE <<>>]
    IN  {[shown EXCEPT !.top3 = t] : t \in Top3s(cls)}

\* st.selectbox over class_list: one of its options, None when there is none.
SelectedClasses(df) ==
    IF Len(df.rows) = 0 THEN {"None"} ELSE {ClassList(df)[k] : k \in 1 .. Len(ClassList(df))}

\* st.text_input: the name queries of the model.
NameQueries == {"", " An", "z"}

\* A label of ids that two columns carry: melt's frame.pop(col) then fails.
Repeated(df, ids) ==
    \E k \in 1 .. Len(ids) : Cardinality({i \in 1 .. Len(df.cols) : df.cols[i] = ids[k]}) > 1

(***************************************************************************)
(* The uploaded files, read and concatenated: identity columns under the   *)
(* names of CoreLabels, mark columns under names of SubjectLabels, at most *)
(* MaxSubjCols of them, and at most MaxRows rows. A mark cell is empty     *)
(* (an empty cell of the sheet, or a column the row's file does not have)  *)
(* or holds a number.                                                      *)
(***************************************************************************)
CoreLabels == <<"Class", "Reg.no", "Reg No", "Name">>
SubjectLabels ==
    <<"OOPs C++", "OOPS C++", "OOP C++", "OOPs CPP", "Cloud Management", "Cloud Mgmt">>
Marks == {40}
Cells == {NaN} \cup {Cell(m) : m \in Marks}
Text == Cell("x")

RECURSIVE Pick(_, _, _)
Pick(seq, S, k) ==
    IF k > Len(seq) THEN <<>>
    ELSE (IF k \in S THEN <<seq[k]>> ELSE <<>>) \o Pick(seq, S, k + 1)

RowsOf(nc, ns) == {[i \in 1 .. nc |-> Text] \o m : m \in [1 .. ns -> Cells]}

Headers ==
    {<<A, B>> \in (SUBSET (1 .. Len(CoreLabels))) \X (SUBSET (1 .. Len(SubjectLabels))) :
        Cardinality(B) <= MaxSubjCols}

\* A signed-in session: page_home is behind the login gate.
SignedIn == Some(UserRecord(1, 1, TRUE))

InitNorm ==
    /\ entry \in {"app", "main"}
    /\ user = IF entry = "app" THEN SignedIn ELSE None
    /\ loginSince = (entry = "app")
    /\ InitHandlers
    /\ view = Render(entry, user, "home")
    /\ \E h \in Headers : \E n \in 0 .. MaxRows :
          \E rs \in [1 .. n -> RowsOf(Cardinality(h[1]), Cardinality(h[2]))] :
             upload = Frame(Pick(CoreLabels, h[1], 1) \o Pick(SubjectLabels, h[2], 1), rs)
    /\ all_df = upload
    /\ phase = "uploaded"
    /\ missing = <<>>
    /\ report = NoReport
    /\ pred = NoPred

\* app.py: rename, add the absent subjects, fill, then validate the identity columns.
page_home ==
    /\ entry = "app" /\ user # None /\ route = "home" /\ phase = "uploaded"
    /\ \E o \in SetFilled(EnsureSubjects(Rename(RENAME_MAP, upload), SUBJECTS, 1), SUBJECTS) :
          /\ all_df' = o.df
          /\ IF o.crash
             THEN phase' = "crashed" /\ missing' = <<>> /\ report' = NoReport
             ELSE /\ missing' = MissingColumns(o.df, CoreColumns)
                  /\ IF missing' # <<>>
                     THEN phase' = "error" /\ report' = NoReport
                     ELSE IF Repeated(o.df, <<"Class", "Reg.no", "Name">>)
                     THEN phase' = "crashed" /\ report' = NoReport
                     ELSE /\ phase' = "aggregated"
                          /\ \E sel \in SelectedClasses(o.df) : \E q \in NameQueries :
                                report' \in Reports("app", o.df, sel, q, SUBJECTS)
    /\ UNCHANGED <<entry, authVars, upload, pred>>

\* main.py: rename, validate the identity columns (st.stop), then add and fill.
MainUpload ==
    /\ entry = "main" /\ phase = "uploaded"
    /\ LET df == Rename(rename_map, upload)
           miss == MissingColumns(df, required_base)
       IN  IF miss # <<>>
           THEN all_df' = df /\ phase' = "error" /\ missing' = miss /\ report' = NoReport
           ELSE \E o \in SetFilled(EnsureSubjects(df, possible_subjects, 1), possible_subjects) :
                   /\ all_df' = o.df
                   /\ missing' = <<>>
                   /\ IF o.crash \/ Repeated(o.df, <<"Class", "Reg.no", "Name">>)
                      THEN phase' = "crashed" /\ report' = NoReport
                      ELSE /\ phase' = "aggregated"
                           /\ \E sel \in SelectedClasses(o.df) :
                                 report' \in Reports("main", o.df, sel, "", possible_subjects)
    /\ UNCHANGED <<entry, authVars, upload, pred>>

NextNorm == page_home \/ MainUpload

SpecNorm == InitNorm /\ [][NextNorm]_vars

(***************************************************************************)
(* Uploads for the analysis: class sheets with the identity columns and    *)
(* the 6 subjects, in the canonical layout or in another column order with *)
(* alias names and an extra column; 1 to MaxStudents rows, each of a class *)
(* of ClassNames with the marks of one of MarkProfiles (by subject, in the *)
(* order of SUBJECTS).                                                     *)
(***************************************************************************)
MaxStudents == 4

ClassNames == {"A", "B"}
MarkProfiles ==
    {<<40, 40, 40, 40, 40, 40>>, <<39, 41, 40, 40, 40, 40>>, <<30, 50, 60, 60, 60, 35>>}

SheetLayouts ==
    {<<"Class", "Reg.no", "Name">> \o SUBJECTS,
     <<"Name", "Physics", "Cloud Management", "Embedded Systems", "Applied Data Science",
       "Mathematics", "DSA CPP", "OOPS C++", "Reg.no", "Class">>}

RegByRow == <<"R1", "R2", "R1", "R3", "R4", "R5">>
NamesByRow == <<"Ann", "bob", "Anna", "Raj", "Dan", "bob">>
ExtraMark == 7

SubjectOf(c) == IF c \in DOMAIN RENAME_MAP THEN RENAME_MAP[c] ELSE c

SheetCell(c, i, cl, prof) ==
    CASE c = "Class" -> Cell(cl)
      [] c = "Reg.no" -> Cell(RegByRow[((i - 1) % Len(RegByRow)) + 1])
      [] c = "Name" -> Cell(NamesByRow[((i - 1) % Len(NamesByRow)) + 1])
      [] SubjectOf(c) \in Labels(SUBJECTS) ->
            Cell(prof[CHOOSE k \in 1 .. Len(SUBJECTS) : SUBJECTS[k] = SubjectOf(c)])
      [] OTHER -> Cell(ExtraMark)

InitAgg ==
    /\ entry \in {"app", "main"}
    /\ user = IF entry = "app" THEN SignedIn ELSE None
    /\ loginSince = (entry = "app")
    /\ InitHandlers
    /\ view = Render(entry, user, "home")
    /\ \E h \in SheetLayouts : \E n \in 1 .. MaxStudents :
          \E cl \in [1 .. n -> ClassNames] : \E pr \in [1 .. n -> MarkProfiles] :
             upload = Frame(h, [i \in 1 .. n |->
                                   [j \in 1 .. Len(h) |-> SheetCell(h[j], i, cl[i], pr[i])]])
    /\ all_df = upload
    /\ phase = "uploaded"
    /\ missing = <<>>
    /\ report = NoReport
    /\ pred = NoPred

SpecAgg == InitAgg /\ [][NextNorm]_vars

(***************************************************************************)
(* The score predictor of the two entry points.  A score is kept exact, in *)
(* hundredths of a percentage point (50.5 is 5050).  The source computes   *)
(* in binary floating point, whose result differs from the exact one by    *)
(* less than 1e-13; that changes a grade only when the exact score lies on *)
(* a grade bound, which happens for none of the inputs drawn below.        *)
(***************************************************************************)
Hundredths == 100

\* app.py: GRADE_BOUNDS and to_grade: the first bound the score reaches.
GRADE_BOUNDS_above ==
    << <<91, "A+">>, <<80, "A">>, <<70, "B">>, <<60, "C">>, <<50, "D">>, <<0, "E">> >>
GRADE_BOUNDS ==
    << <<90, "A+">>, <<80, "A">>, <<70, "B">>, <<60, "C">>, <<50, "D">>, <<0, "E">> >>
RECURSIVE to_grade_from(_, _)
to_grade_from(score, k) ==
    IF k > Len(GRADE_BOUNDS) THEN "E"
    ELSE IF score >= GRADE_BOUNDS[k][1] * Hundredths THEN GRADE_BOUNDS[k][2]
    ELSE to_grade_from(score, k + 1)
to_grade(score) == to_grade_from(score, 1)

\* app.py: clamp(x, lo=0, hi=100) = max(lo, min(hi, x))
Min2(a, b) == IF a <= b THEN a ELSE b
Max2(a, b) == IF a >= b THEN a ELSE b
clamp_lower(x, lo, hi) == Max2(lo, x)
clamp(x, lo, hi) == Max2(lo, Min2(hi, x))

\* app.py predictor_dialog: the widgets and what they accept.
AgeMin == 10
AgeMax == 25
Ages == AgeMin .. AgeMax
Genders == {"Female", "Male", "Other"}
AppAbsencesMax == 100
AppStudyMax == 60
AppAbsences == {0, 5, 30, 31, AppAbsencesMax}
AppStudyTimes == {0, 10, 25, 26, AppStudyMax}
AppSupport == ("Low" :> -6) @@ ("Moderate" :> 0) @@ ("High" :> 6)
AppEducation ==
    ("Primary" :> -4) @@ ("Middle School" :> -2) @@ ("High School" :> 0)
    @@ ("Bachelor" :> 3) @@ ("Master+" :> 5)
AppEthnicities == {"Group A", "Group B", "Group C", "Group D", "Group E"}

\* -0.15 * (age - 17) ** 2 + 0.5
AgeTerm_around16(age) == -15 * (age - 16) * (age - 16) + 50
AgeTerm(age) == -15 * (age - 17) * (age - 17) + 50

\* The lines under st.button("Predict"), before the clamp.
app_score_gendered(age, gender, absences, study_time, parental_ed, parental_support, ethnicity, sports) ==
    5000 + study_time * 220 - absences * 150
    + AppSupport[parental_support] * Hundredths
    + AppEducation[parental_ed] * Hundredths
    + (IF sports THEN 250 ELSE 0)
    + AgeTerm(age)
    + (IF gender = "Male" THEN Hundredths ELSE 0)
app_score(age, gender, absences, study_time, parental_ed, parental_support, ethnicity, sports) ==
    5000 + study_time * 220 - absences * 150
    + AppSupport[parental_support] * Hundredths
    + AppEducation[parental_ed] * Hundredths
    + (IF sports THEN 250 ELSE 0)
    + AgeTerm(age)

\* main.py: grade_from_score
grade_from_score(score) ==
    IF score >= 90 * Hundredths THEN "A"
    ELSE IF score >= 80 * Hundredths THEN "B"
    ELSE IF score >= 70 * Hundredths THEN "C"
    ELSE IF score >= 60 * Hundredths THEN "D"
    ELSE "F"

\* main.py predictor_dialog: the widgets and what they accept.
MainAbsencesMax == 60
MainStudyMax == 50
MainAbsences == {0, 5, 30, 31, MainAbsencesMax}
MainStudyTimes == {0, 10, 25, 26, MainStudyMax}
edu_boost ==
    ("Middle School" :> 0) @@ ("High School" :> 3) @@ ("Diploma" :> 5)
    @@ ("Bachelor's" :> 7) @@ ("Master's" :> 8) @@ ("PhD" :> 9)
support_boost == ("Low" :> -4) @@ ("Moderate" :> 2) @@ ("High" :> 5) @@ ("Very High" :> 7)
MainEthnicities == {"Group A", "Group B", "Group C", "Group D", "Prefer not to say"}
Get(table, key, default) == IF key \in DOMAIN table THEN table[key] ELSE default
Abs(x) == IF x < 0 THEN -x ELSE x

\* main.py: predict_percentage.  abs(age - 16.5) * 0.8 is 8 hundredths per
\* tenth of a year.
predict_percentage(age, gender, absences, study_time, parental_edu, parental_support, ethnicity, sports) ==
    LET score == 4500 + Min2(study_time, 25) * 180 - Min2(absences, 30) * 140
                 + (Get(edu_boost, parental_edu, 3) + Get(support_boost, parental_support, 2)) * Hundredths
                 + (IF sports THEN 300 ELSE 0)
                 - Abs(10 * age - 165) * 8
    IN  Max2(0, Min2(100 * Hundredths, score))

\* What the dialog shows after Predict.
Shown(age, gender, absences, study_time, parental_ed, parental_support, ethnicity, sports, score, grade) ==
    [shown |-> TRUE, age |-> age, gender |-> gender, absences |-> absences,
     study_time |-> study_time, parental_ed |-> parental_ed,
     parental_support |-> parental_support, ethnicity |-> ethnicity, sports |-> sports,
     score |-> score, grade |-> grade]

\* app.py: "AI Predict" opens predictor_dialog; Predict computes and shows the
\* score and its grade.  One prediction per run: a prediction reads nothing of
\* an earlier one.
predictor_dialog ==
    /\ entry = "app" /\ ~pred.shown
    /\ \E age \in Ages : \E gender \in Genders : \E absences \in AppAbsences :
       \E study_time \in AppStudyTimes : \E parental_ed \in DOMAIN AppEducation :
       \E parental_support \in DOMAIN AppSupport : \E ethnicity \in AppEthnicities :
       \E sports \in BOOLEAN :
          LET score == clamp(app_score(age, gender, absences, study_time, parental_ed,
                                       parental_support, ethnicity, sports),
                             0, 100 * Hundredths)
          IN  pred' = Shown(age, gender, absences, study_time, parental_ed,
                            parental_support, ethnicity, sports, score, to_grade(score))
    /\ UNCHANGED <<entry, authVars, upload, all_df, phase, missing, report>>

\* main.py: "Predict Performance" opens the dialog; Predict calls
\* predict_percentage and grade_from_score.
MainPredict ==
    /\ entry = "main" /\ ~pred.shown
    /\ \E age \in Ages : \E gender \in Genders : \E absences \in MainAbsences :
       \E study_time \in MainStudyTimes : \E parental_edu \in DOMAIN edu_boost :
       \E parental_support \in DOMAIN support_boost : \E ethnicity \in MainEthnicities :
       \E sports \in BOOLEAN :
          LET pct == predict_percentage(age, gender, absences, study_time, parental_edu,
                                        parental_support, ethnicity, sports)
          IN  pred' = Shown(age, gender, absences, study_time, parental_edu,
                            parental_support, ethnicity, sports, pct, grade_from_score(pct))
    /\ UNCHANGED <<entry, authVars, upload, all_df, phase, missing, report>>

InitPred ==
    /\ entry \in {"app", "main"}
    /\ InitAuth
    /\ InitTable0
NextPred == predictor_dialog \/ MainPredict
SpecPred == InitPred /\ [][NextPred]_vars

\* to_grade on its own: applied to any score from a point below 0 to a point
\* above 100, in steps of a hundredth.
Scores == (-Hundredths) .. (101 * Hundredths)
Grade ==
    /\ entry = "app" /\ ~pred.shown
    /\ \E score \in Scores :
          pred' = [shown |-> TRUE, score |-> score, grade |-> to_grade(score)]
    /\ UNCHANGED <<entry, authVars, upload, all_df, phase, missing, report>>
InitGrade ==
    /\ entry = "app"
    /\ InitAuth
    /\ InitTable0
SpecGrade == InitGrade /\ [][Grade]_vars

TypeOK ==
    /\ user = None \/ (Len(user) = 1 /\ user[1] \in [idToken : Tokens \cup {EmptyToken},
                                                     refreshToken : Tokens \cup {EmptyToken},
                                                     verified : BOOLEAN])
    /\ pc \in {"idle", "running", "hung"}
    /\ tries \in 0 .. (RetryTotal + 1)

(***************************************************************************)
(* Claims about the Identity Client and the session.                       *)
(***************************************************************************)
Finished(h) == pc = "idle" /\ handler = h
Failure == outcome \notin {"none", "ok"}

\* C1: a login, sign-up, resend-verification or refresh-status action that ends
\* in its error branch leaves session.user as it was when the action started.
C1_FailureLeavesSession ==
    (pc = "idle" /\ handler \in {"login", "signup", "resend", "refresh"} /\ Failure)
        => user = user0

\* C2, as claimed: session.user is None or one identity record, is not None
\* only if a sign-in succeeded since the last sign-out (or start), and is None
\* right after sign-out.
C2_SessionOnlyAfterSignIn ==
    /\ Len(user) <= 1
    /\ user # None => loginSince
    /\ handler = "signout" => user = None

\* C2, amended: session.user is None or one identity record, is not None only
\* if a sign-in or a sign-up succeeded since the last sign-out (or start), and
\* is None right after sign-out.
C2_SessionOnlyAfterSignInOrSignUp ==
    /\ Len(user) <= 1
    /\ user # None => (loginSince \/ signupSince)
    /\ handler = "signout" => user = None

\* C2's case: a sign-out has just cleared a session that held an identity.
C2_Witness == handler = "signout" /\ user0 # None /\ user = None

C4_FailuresSurfaced ==
    (pc = "idle" /\ failed) => (outcome # "ok" /\ (handler = "login" => user = user0))

\* C5: after a refresh-status action whose requests the provider answered
\* successfully, the session's idToken and refreshToken are the issued ones and
\* its verified flag is the emailVerified returned.
C5_RefreshUpdatesSession ==
    (Finished("refresh") /\ entry = "app" /\ ~failed /\ lastAns.body = "json"
        /\ \E i \in 1 .. Len(sent) : sent[i].ep = "token")
        => /\ outcome = "ok"
           /\ user[1].idToken = issued.idToken
           /\ user[1].refreshToken = issued.refreshToken
           /\ user[1].verified = issued.emailVerified

\* C6: a state-changing request (accounts:signUp, accounts:update,
\* accounts:sendOobCode) is sent at most once per call, whatever status the
\* provider answers it with.
C6_StateChangingSentOnce ==
    (todo # <<>> /\ Head(todo).ep \in StateChanging /\ uniform /\ lastAns.net = "resp")
        => tries <= 1

\* C7: a sign-up that returns has sent accounts:signUp, then accounts:update
\* only when a display name was given (always then, in app.py), then
\* accounts:sendOobCode VERIFY_EMAIL with the idToken signUp returned; the
\* record it leaves has that idToken and verified = False.
C7_SignUpSendsVerification ==
    (Finished("signup") /\ outcome = "ok")
        => /\ Len(sent) \in {2, 3}
           /\ sent[1] = [ep |-> "accounts:signUp", type |-> "", tok |-> EmptyToken]
           /\ Len(sent) = 3 =>
                  (args.hasName /\ sent[2] = [ep |-> "accounts:update", type |-> "",
                                              tok |-> issued.idToken])
           /\ (entry = "app" /\ args.hasName) => Len(sent) = 3
           /\ sent[Len(sent)] = [ep |-> "accounts:sendOobCode", type |-> "VERIFY_EMAIL",
                                 tok |-> issued.idToken]
           /\ user = Some(UserRecord(issued.idToken, issued.refreshToken, FALSE))

\* C7's case: a sign-up of app.py with a display name has returned.
C7_Witness ==
    /\ entry = "app" /\ Finished("signup") /\ outcome = "ok" /\ args.hasName
    /\ Len(sent) = 3

\* C8: no identity operation hangs, and each call sends a bounded number of
\* requests.
C8_NoCallHangs == pc # "hung" /\ tries <= RetryTotal + 1

(***************************************************************************)
(* Claims about the subject normalizer and the identity columns.           *)
(***************************************************************************)
\* The uploaded table with the entry point's aliases renamed.
Renamed == Rename(AliasMap(entry), upload)
\* Normalization has completed (in app.py it precedes the validation).
Normalized == phase = "aggregated" \/ (entry = "app" /\ phase = "error")
IsNumber(c) == Len(c) = 1 /\ c[1] \in Int

\* C9: after normalization every row has each of the 6 subjects with a numeric
\* value: a subject absent from the upload is added with 0 in every row, an
\* empty subject cell becomes 0, and a cell that held a number is unchanged.
C9_NormalizedSubjects ==
    Normalized =>
        /\ \A k \in 1 .. Len(SUBJECTS) : HasColumn(all_df, SUBJECTS[k])
        /\ Len(all_df.rows) = Len(upload.rows)
        /\ Len(all_df.cols) >= Len(upload.cols)
        /\ \A r \in 1 .. Len(all_df.rows) : \A i \in 1 .. Len(all_df.cols) :
              all_df.cols[i] \in Labels(SUBJECTS) =>
                 /\ IsNumber(all_df.rows[r][i])
                 /\ IF i <= Len(upload.cols)
                    THEN /\ all_df.cols[i] = Renamed.cols[i]
                         /\ all_df.rows[r][i] =
                               IF upload.rows[r][i] = NaN THEN Cell(0) ELSE upload.rows[r][i]
                    ELSE /\ ~HasColumn(Renamed, all_df.cols[i])
                         /\ all_df.rows[r][i] = Cell(0)

C9_Witness ==
    /\ phase = "aggregated"
    /\ \E k \in 1 .. Len(SUBJECTS) : ~HasColumn(Renamed, SUBJECTS[k])
    /\ \E r \in 1 .. Len(upload.rows) : \E i, j \in 1 .. Len(upload.cols) :
          /\ Renamed.cols[i] \in Labels(SUBJECTS) /\ upload.rows[r][i] = NaN
          /\ Renamed.cols[j] \in Labels(SUBJECTS) /\ upload.rows[r][j] # NaN
          /\ all_df.rows[r][i] = Cell(0)

\* C10: when an identity column (Class, Reg.no, Name) is absent from the upload,
\* the run ends with the error that names exactly the absent columns, and no
\* aggregation step runs, in both entry points.
C10_MissingIdentityReported ==
    (phase # "uploaded" /\ \E k \in 1 .. Len(CoreColumns) : ~HasColumn(Renamed, CoreColumns[k]))
        => /\ phase = "error"
           /\ Labels(missing) = {c \in Labels(CoreColumns) : ~HasColumn(Renamed, c)}
           /\ Len(missing) = Cardinality(Labels(missing))

(***************************************************************************)
(* Claims about the analysis of the uploaded table.                        *)
(***************************************************************************)
\* The cell row r of the upload carries for the column s, under the label its
\* file used for s.
UploadedCell(r, s) ==
    upload.rows[r][CHOOSE i \in 1 .. Len(upload.cols) : Renamed.cols[i] = s][1]
SixMarks(r) == [k \in 1 .. Len(SUBJECTS) |-> UploadedCell(r, SUBJECTS[k])]

\* C11: for every row of the filtered class, Total Marks is the sum of the 6
\* subject marks of that row, whatever the order of the columns and whatever
\* other columns there are, and Percentage is total / 600 * 100 rounded to 2
\* decimals.
C11_TotalsAndPercentage ==
    report.shown =>
        \A k \in 1 .. Len(report.cls_df) :
            LET r == report.cls_df[k].row
                total == UploadedCell(r, "OOPs C++") + UploadedCell(r, "DSA C++")
                         + UploadedCell(r, "Mathematics") + UploadedCell(r, "Applied Data Science")
                         + UploadedCell(r, "Embedded Systems") + UploadedCell(r, "Cloud Management")
            IN  /\ report.cls_df[k].total = total
                /\ 6 * report.cls_df[k].pct - 100 * total \in -3 .. 3

C11_Witness ==
    /\ report.shown
    /\ upload.cols[2] = "Physics"
    /\ Len(report.cls_df) >= 2
    /\ \E k \in 1 .. Len(report.cls_df) :
          report.cls_df[k].total = 295 /\ report.cls_df[k].pct = 4917

\* Row r of the upload has every one of its six subject marks at the pass mark
\* or above.
PassesAll(r) == \A k \in 1 .. Len(SUBJECTS) : SixMarks(r)[k] >= 40

\* C12: (app.py) the class pass rate is the percentage of the filtered
\* records whose 6 subject marks are all >= 40: 100 when all pass, 0 when
\* every record has a subject below 40, 0.0 when there are no records; a mark
\* of exactly 40 passes.
C12_PassRate ==
    (report.shown /\ entry = "app") =>
        LET n == Len(report.cls_df)
            passes == Cardinality({k \in 1 .. n : PassesAll(report.cls_df[k].row)})
            rate == report.pass_rate
        IN  /\ rate.den > 0
            /\ n = 0 => rate.num = 0
            /\ n > 0 => rate.num * n = 100 * passes * rate.den
            /\ (n > 0 /\ passes = n) => rate.num = 100 * rate.den
            /\ (n > 0 /\ passes = 0) => rate.num = 0

C12_Witness ==
    /\ report.shown /\ entry = "app"
    /\ Len(report.cls_df) = 3
    /\ \E k \in 1 .. 3 : \A j \in 1 .. 6 : SixMarks(report.cls_df[k].row)[j] = 40
    /\ \E k \in 1 .. 3 : ~PassesAll(report.cls_df[k].row)
    /\ 3 * report.pass_rate.num = 100 * report.pass_rate.den

\* C13: the top-3 listing is the first min(3, count) records of the filtered
\* class sorted by Total Marks descending, labelled 1st, 2nd, 3rd in order; no
\* listed record has a smaller total than an unlisted one; among equal totals
\* the earlier row of the table is ranked first, and is the one kept when the
\* tie straddles the cut-off.
C13_Top3StableByTotal ==
    report.shown =>
        LET cls == report.cls_df
            top == report.top3
            n == Len(cls)
            listed == {top[k].row : k \in 1 .. Len(top)}
        IN  /\ Len(top) = IF n < 3 THEN n ELSE 3
            /\ \A k \in 1 .. Len(top) :
                  /\ top[k].rank = <<"1st", "2nd", "3rd">>[k]
                  /\ \E j \in 1 .. n : cls[j].row = top[k].row /\ cls[j].total = top[k].total
            /\ \A k, l \in 1 .. Len(top) :
                  k < l => \/ top[k].total > top[l].total
                           \/ top[k].total = top[l].total /\ top[k].row < top[l].row
            /\ \A k \in 1 .. Len(top) : \A j \in 1 .. n :
                  cls[j].row \notin listed =>
                      \/ top[k].total > cls[j].total
                      \/ top[k].total = cls[j].total /\ top[k].row < cls[j].row

\* The subject names in ascending order.
SubjectsAscending ==
    <<"Applied Data Science", "Cloud Management", "DSA C++", "Embedded Systems",
      "Mathematics", "OOPs C++">>
SubjectPosition(s) == CHOOSE k \in 1 .. 6 : SubjectsAscending[k] = s

\* C14: the weak-student listing has exactly one row (reg id, name, subject,
\* mark) for every (student, subject) pair of the filtered class whose mark is
\* below 40 and no other row (a mark of exactly 40 is not listed); it is
\* ordered by subject name ascending, then by mark ascending.
C14_WeakListing ==
    report.shown =>
        LET weak == report.weak_df
            kept == {report.cls_df[k].row : k \in 1 .. Len(report.cls_df)}
            pairs == {<<r, s>> \in kept \X {SUBJECTS[k] : k \in 1 .. 6} : UploadedCell(r, s) < 40}
        IN  /\ Len(weak) = Cardinality(pairs)
            /\ \A p \in pairs : \E t \in 1 .. Len(weak) :
                  weak[t].row = p[1] /\ weak[t].subject = p[2]
            /\ \A t \in 1 .. Len(weak) :
                  /\ <<weak[t].row, weak[t].subject>> \in pairs
                  /\ weak[t].marks = UploadedCell(weak[t].row, weak[t].subject)
                  /\ weak[t].reg = UploadedCell(weak[t].row, "Reg.no")
                  /\ weak[t].name = UploadedCell(weak[t].row, "Name")
            /\ \A t \in 1 .. Len(weak) - 1 :
                  \/ SubjectPosition(weak[t].subject) < SubjectPosition(weak[t + 1].subject)
                  \/ /\ weak[t].subject = weak[t + 1].subject
                     /\ weak[t].marks <= weak[t + 1].marks

C14_Witness ==
    /\ report.shown
    /\ Len(report.weak_df) = 3
    /\ report.weak_df[1].subject = "Cloud Management" /\ report.weak_df[1].marks = 35
    /\ report.weak_df[2].subject = "OOPs C++" /\ report.weak_df[2].marks = 30
    /\ report.weak_df[3].subject = "OOPs C++" /\ report.weak_df[3].marks = 39
    /\ report.weak_df[3].row < report.weak_df[2].row
    /\ \E k \in 1 .. Len(report.cls_df) : UploadedCell(report.cls_df[k].row, "DSA C++") = 40

\* The rows of the upload whose class is c, and the sum of their marks in s.
RowsOfClass(c) == {r \in 1 .. Len(upload.rows) : UploadedCell(r, "Class") = c}
RECURSIVE SumOfMarks(_, _)
SumOfMarks(R, s) ==
    IF R = {} THEN 0
    ELSE LET r == CHOOSE x \in R : TRUE IN UploadedCell(r, s) + SumOfMarks(R \ {r}, s)

\* C15: (app.py) the cross-class comparison, i.e. per class the subject
\* averages, the number of distinct students and the pass rate, is computed
\* over the entire unfiltered table: it is the same for every selected class
\* and every name filter, and the analysis of one class leaves the full table
\* unchanged.
C15_ComparisonOverWholeTable ==
    (report.shown /\ entry = "app") =>
        LET comp == report.comparison
            classes == {UploadedCell(r, "Class") : r \in 1 .. Len(upload.rows)}
        IN  /\ Len(comp) = Cardinality(classes)
            /\ {comp[c].class : c \in 1 .. Len(comp)} = classes
            /\ \A c \in 1 .. Len(comp) :
                  LET of == RowsOfClass(comp[c].class)
                  IN  /\ comp[c].students = Cardinality({UploadedCell(r, "Reg.no") : r \in of})
                      /\ comp[c].pass_rate.den = Cardinality(of)
                      /\ comp[c].pass_rate.num = 100 * Cardinality({r \in of : PassesAll(r)})
                      /\ \A j \in 1 .. 6 :
                            /\ comp[c].averages[j].subject = SUBJECTS[j]
                            /\ comp[c].averages[j].mean.den = Cardinality(of)
                            /\ comp[c].averages[j].mean.num = SumOfMarks(of, SUBJECTS[j])
            /\ all_df.cols = Renamed.cols
            /\ all_df.rows = upload.rows

C15_Witness ==
    /\ report.shown /\ entry = "app"
    /\ report.name_query = " An"
    /\ Len(report.cls_df) < Cardinality(RowsOfClass(report.selected_class))
    /\ Len(upload.rows) = 4
    /\ Len(report.comparison) = 2
    /\ report.comparison[1].students = 1 /\ Cardinality(RowsOfClass("A")) = 2
    /\ \E c \in 1 .. 2 : report.comparison[c].pass_rate.num = 50 * report.comparison[c].pass_rate.den

\* all_df with its rows i and j exchanged.
Exchanged(df, i, j) ==
    [df EXCEPT !.rows = [r \in 1 .. Len(df.rows) |->
                            IF r = i THEN df.rows[j] ELSE IF r = j THEN df.rows[i] ELSE df.rows[r]]]
\* The pass rate of every class of df, as the comparison of classes computes it.
PassRateByClass(df) ==
    LET cols == Selected(df, SUBJECTS, 1)
    IN  {<<c, ClassPassRate(df, FilterClass(df, c), cols)>> :
            c \in {At(df, r, "Class") : r \in 1 .. Len(df.rows)}}

\* C16: (app.py) for each class the cross-class pass rate is 100 times the mean
\* over that class's records of the indicator "all 6 subject marks >= 40"; it
\* is the same for every order of the rows and of the classes.
C16_ClassPassRateIsMean ==
    (report.shown /\ entry = "app") =>
        LET comp == report.comparison
            rates == {<<comp[c].class, comp[c].pass_rate>> : c \in 1 .. Len(comp)}
        IN  /\ \A c \in 1 .. Len(comp) :
                  LET of == RowsOfClass(comp[c].class)
                      rate == comp[c].pass_rate
                  IN  /\ of # {} /\ rate.den > 0
                      /\ rate.num * Cardinality(of)
                            = 100 * Cardinality({r \in of : PassesAll(r)}) * rate.den
            /\ rates = PassRateByClass(all_df)
            /\ \A i, j \in 1 .. Len(all_df.rows) :
                  i < j => PassRateByClass(Exchanged(all_df, i, j)) = rates

C16_Witness ==
    /\ report.shown /\ entry = "app"
    /\ Len(report.comparison) = 2
    /\ 3 * report.comparison[1].pass_rate.num = 200 * report.comparison[1].pass_rate.den
    /\ report.comparison[2].pass_rate.num = 0
    /\ UploadedCell(1, "Class") = "B" /\ UploadedCell(2, "Class") = "A"

\* C17: when the class / name filter selects no record the analysis completes
\* without raising and shows: 0 students, class average "0.00", pass rate 0.0,
\* topper 0, an empty top-3 and an empty weak listing; the subject averages
\* have no data (they are undefined).
C17_EmptySelection ==
    /\ phase # "crashed"
    /\ (phase = "aggregated" /\ entry = "app") =>
          /\ report.shown
          /\ report.students = Len(report.cls_df)
          /\ Len(report.cls_df) = 0 =>
                /\ report.students = 0
                /\ report.class_average = [num |-> 0, den |-> 1]
                /\ report.pass_rate = [num |-> 0, den |-> 1]
                /\ report.topper = 0
                /\ report.top3 = <<>>
                /\ report.weak_df = <<>>
                /\ Len(report.avg_data) = 6
                /\ \A j \in 1 .. 6 :
                      /\ report.avg_data[j].subject = SUBJECTS[j]
                      /\ report.avg_data[j].mean.den = 0

C17_Witness ==
    /\ phase = "aggregated" /\ entry = "app"
    /\ report.shown
    /\ report.name_query = "z"
    /\ Len(report.cls_df) = 0
    /\ Len(upload.rows) = 3
    /\ Len(report.comparison) = 2

(***************************************************************************)
(* Claims about the score predictor.                                       *)
(***************************************************************************)
\* C18: (app.py) for every predictor input the predicted score equals
\* clamp(50 + 2.2 * study_hours - 1.5 * absences + support_bonus
\* + education_bonus + (2.5 if sports) + (-0.15 * (age - 17)^2 + 0.5), 0, 100);
\* in particular age 17, no absences, no study hours, Moderate support, High
\* School education and no sports gives 50.5, graded 'D' on the scale
\* A+/A/B/C/D/E.
C18_AppScoreFormula ==
    (pred.shown /\ entry = "app") =>
        LET support_bonus == CASE pred.parental_support = "Low" -> -600
                               [] pred.parental_support = "Moderate" -> 0
                               [] pred.parental_support = "High" -> 600
            education_bonus == CASE pred.parental_ed = "Primary" -> -400
                                 [] pred.parental_ed = "Middle School" -> -200
                                 [] pred.parental_ed = "High School" -> 0
                                 [] pred.parental_ed = "Bachelor" -> 300
                                 [] pred.parental_ed = "Master+" -> 500
            raw == 5000 + 220 * pred.study_time - 150 * pred.absences
                   + support_bonus + education_bonus
                   + (IF pred.sports THEN 250 ELSE 0)
                   + (50 - 15 * (pred.age - 17) * (pred.age - 17))
        IN  /\ pred.score = IF raw < 0 THEN 0 ELSE IF raw > 10000 THEN 10000 ELSE raw
            /\ ( /\ pred.age = 17 /\ pred.absences = 0 /\ pred.study_time = 0
                 /\ pred.parental_support = "Moderate" /\ pred.parental_ed = "High School"
                 /\ ~pred.sports )
               => (pred.score = 5050 /\ pred.grade = "D")

C18_Witness ==
    /\ pred.shown /\ entry = "app"
    /\ pred.age = 17 /\ pred.absences = 0 /\ pred.study_time = 0
    /\ pred.parental_support = "Moderate" /\ pred.parental_ed = "High School"
    /\ ~pred.sports
    /\ pred.score = 5050 /\ pred.grade = "D"

\* C19: for every combination of predictor inputs in the accepted ranges
\* (absences at their maximum with no study hours, maximum study hours with
\* every bonus, ...) the predicted percentage of both predictors lies in
\* [0, 100].
C19_PercentageInRange ==
    pred.shown => (pred.score >= 0 /\ pred.score <= 10000)

C19_Witness ==
    /\ pred.shown /\ entry = "app"
    /\ pred.study_time = 60 /\ pred.absences = 0
    /\ pred.parental_support = "High" /\ pred.parental_ed = "Master+" /\ pred.sports
    /\ pred.age = 17
    /\ pred.score = 10000

\* C20: gender and ethnicity do not influence the prediction: inputs that agree
\* on age, absences, study hours, parental education, parental support and
\* sports give the same score and the same letter grade whatever the gender
\* and the ethnicity are, in both predictors.
C20_GenderEthnicityIgnored ==
    pred.shown =>
        /\ entry = "app" =>
              \A g \in Genders : \A e \in AppEthnicities :
                 LET score == clamp(app_score(pred.age, g, pred.absences, pred.study_time,
                                              pred.parental_ed, pred.parental_support, e,
                                              pred.sports), 0, 10000)
                 IN  pred.score = score /\ pred.grade = to_grade(score)
        /\ entry = "main" =>
              \A g \in Genders : \A e \in MainEthnicities :
                 LET pct == predict_percentage(pred.age, g, pred.absences, pred.study_time,
                                               pred.parental_ed, pred.parental_support, e,
                                               pred.sports)
                 IN  pred.score = pct /\ pred.grade = grade_from_score(pct)

C20_Witness ==
    /\ pred.shown /\ entry = "main"
    /\ pred.gender = "Male" /\ pred.ethnicity = "Prefer not to say"
    /\ pred.score > 6000 /\ pred.score < 7000
    /\ pred.grade = "D"

\* C21: to_grade maps a score to a letter by fixed descending thresholds,
\* inclusive at the lower bound of each band: >= 90 gives A+, >= 80 A, >= 70 B,
\* >= 60 C, >= 50 D, anything lower E; exactly 90.0 gives A+ and 89.99 gives A,
\* and every score in [0, 100] gets exactly one letter.
C21_GradeBands ==
    (pred.shown /\ entry = "app") =>
        LET s == pred.score
            g == pred.grade
        IN  /\ g \in {"A+", "A", "B", "C", "D", "E"}
            /\ g = "A+" <=> s >= 9000
            /\ g = "A" <=> (s >= 8000 /\ s < 9000)
            /\ g = "B" <=> (s >= 7000 /\ s < 8000)
            /\ g = "C" <=> (s >= 6000 /\ s < 7000)
            /\ g = "D" <=> (s >= 5000 /\ s < 6000)
            /\ g = "E" <=> s < 5000
            /\ s = 9000 => g = "A+"
            /\ s = 8999 => g = "A"

C21_Witness ==
    /\ pred.shown /\ entry = "app"
    /\ pred.score = 9000
    /\ pred.grade = "A+"
    /\ DOMAIN pred = {"shown", "score", "grade"}

(***************************************************************************)
(* Claims that span the normalizer, the analysis and the login gate.       *)
(***************************************************************************)
\* C22: when the uploaded files name the same subject differently (the
\* canonical name in one file and an alias in another, or two aliases), then
\* after concatenation and normalization the table has exactly one column per
\* subject, and every row's value for the subject is the mark the row carried
\* under its own column name.
C22_AliasTolerance ==
    ( /\ phase # "uploaded"
      /\ \A k \in 1 .. Len(CoreColumns) : HasColumn(Renamed, CoreColumns[k])
      /\ ~Repeated(Renamed, CoreColumns)
      /\ \E i, j \in 1 .. Len(upload.cols) : \E r1, r2 \in 1 .. Len(upload.rows) :
            /\ i # j /\ Renamed.cols[i] = Renamed.cols[j] /\ Renamed.cols[i] \in Labels(SUBJECTS)
            /\ upload.rows[r1][i] # NaN /\ upload.rows[r1][j] = NaN
            /\ upload.rows[r2][j] # NaN /\ upload.rows[r2][i] = NaN )
    => /\ phase = "aggregated"
       /\ \A k \in 1 .. Len(SUBJECTS) :
             Cardinality({i \in 1 .. Len(all_df.cols) : all_df.cols[i] = SUBJECTS[k]}) = 1
       /\ \A r \in 1 .. Len(upload.rows) : \A i \in 1 .. Len(upload.cols) :
             (Renamed.cols[i] \in Labels(SUBJECTS) /\ upload.rows[r][i] # NaN)
                => all_df.rows[r][Column(all_df, Renamed.cols[i])] = upload.rows[r][i]

\* C23: (app.py) in every render pass the home page and the team page are
\* drawn only if session.user is not None at that point; after any sequence
\* of login, sign-up, sign-out and navigation, a render with session.user =
\* None stops at the login prompt, whatever the route is.
C23_LoginGate ==
    entry = "app" =>
        /\ view \in {"home", "team"} => user # None
        /\ user = None => view = "gate"
        /\ view \in {"home", "team"} => view = route

C23_Witness ==
    /\ entry = "app"
    /\ handler = "signout"
    /\ user = None
    /\ route = "team"
    /\ view = "gate"

\* C24: (app.py) the pass rate and the weak-student listing agree: a record of
\* the filtered class is counted as pass-all (all 6 subjects >= 40) if and
\* only if the weak listing has no row for it; hence the pass rate is 100
\* exactly when the filtered class is not empty and the weak listing is empty.
C24_PassRateAgreesWithWeakListing ==
    (report.shown /\ entry = "app") =>
        LET cls == report.cls_df
            n == Len(cls)
            weak == {report.weak_df[t].row : t \in 1 .. Len(report.weak_df)}
            cols == Selected(all_df, SUBJECTS, 1)
            clean == {k \in 1 .. n : cls[k].row \notin weak}
        IN  /\ \A k \in 1 .. n : PassAll(all_df, cls[k].row, cols) <=> k \in clean
            /\ n > 0 => report.pass_rate.num * n = 100 * Cardinality(clean) * report.pass_rate.den
            /\ report.pass_rate.num = 100 * report.pass_rate.den
                  <=> (n > 0 /\ report.weak_df = <<>>)

C24_Witness ==
    /\ report.shown /\ entry = "app"
    /\ Len(report.cls_df) = 2
    /\ Len(report.weak_df) = 1
    /\ report.weak_df[1].marks = 39
    /\ 2 * report.pass_rate.num = 100 * report.pass_rate.den

====
